---- MODULE Spec2Model ----
(***************************************************************************)
(* Model of aap_prefix3.py / aap_prefix4.py: the recursive prefix rewrite  *)
(* of a parsed YAML tree, the structural diff of the original and the      *)
(* rewritten tree, and the per-file pipeline and main loop around them.    *)
(*                                                                         *)
(* PureSpec applies recursive_prefix_lookup and diff_dict to one tree      *)
(* drawn from a generated universe.  Spec is a whole run of the script     *)
(* over the first MaxFiles entries of file_key_map; FairSpec is Spec with  *)
(* the progress a sequential script makes.                                 *)
(***************************************************************************)
EXTENDS Integers, Sequences, FiniteSets, Bags, TLC

VARIABLES
    variant,        \* which script runs: "aap_prefix3" or "aap_prefix4"
    prefix,         \* the prefix read by input(), a string (sequence of characters)
    hashseed,       \* the interpreter's string hash order: fixes set iteration order
    lookup_table,   \* the dict lookup_table, as its items in insertion order
    fs,             \* the working directory: file index -> content
    fs0,            \* the working directory as it was when the run started
    idx,            \* position of the main loop in file_key_map (1-based)
    pc,             \* control state of the run / of the function application
    stdout,         \* the lines printed so far
    dumper_str,     \* yaml module state: the str representer of yaml.Dumper
    safe_dumper_str,\* yaml module state: the str representer of yaml.SafeDumper
    keys_to_prefix, \* argument of the last call of the rewriter
    original_data,  \* local of process_yaml_file: the parsed tree
    updated_data,   \* local of process_yaml_file: the rewritten tree
    diffs,          \* local of process_yaml_file: the change records
    twice           \* PureSpec: the rewriter applied to its own output

vars == <<variant, prefix, hashseed, lookup_table, fs, fs0, idx, pc, stdout,
          dumper_str, safe_dumper_str, keys_to_prefix, original_data,
          updated_data, diffs, twice>>

---------------------------------------------------------------------------
(* Bounds of the model *)

\* nodes (mappings, sequences, scalars) of a tree handed to the pure functions
MaxNodes == 3
\* characters of a string scalar of such a tree
MaxStrLen == 1
\* entries of file_key_map a run iterates over
MaxFiles == 2

---------------------------------------------------------------------------
(* Document trees: what yaml.safe_load returns.  Every node has the same    *)
(* four fields; tag is the Python type.                                     *)

Node(tag, s, keys, kids) == [tag |-> tag, s |-> s, keys |-> keys, kids |-> kids]

\* a str
Str(s) == Node("str", s, <<>>, <<>>)
\* None (YAML null, and diff_dict's marker for "absent")
PyNone == Node("NoneType", <<>>, <<>>, <<>>)
\* float('nan') (YAML .nan)
NaN == Node("float", <<"n", "a", "n">>, <<>>, <<>>)
\* a dict: its keys in insertion order and the values under them
Dict(keys, vals) == Node("dict", <<>>, keys, vals)
\* a list
List(items) == Node("list", <<>>, <<>>, items)

\* isinstance(data, dict)
IsDict(data) == data.tag = "dict"
\* isinstance(data, list)
IsList(data) == data.tag = "list"
\* isinstance(value, str)
IsStr(value) == value.tag = "str"

\* k in d
HasKey(d, k) == \E i \in 1..Len(d.keys) : d.keys[i] = k
\* d[k]
DictGet(d, k) == d.kids[CHOOSE i \in 1..Len(d.keys) : d.keys[i] = k]

---------------------------------------------------------------------------
(* recursive_prefix_lookup *)

\* a startswith that never holds
StartsWithNever(value, p) == FALSE

\* value.startswith(prefix)
startswith(value, p) ==
    /\ Len(value) >= Len(p)
    /\ SubSeq(value, 1, Len(p)) = p

\* the prefix appended instead of prepended
FormatSwapped(p, value) == value \o p

\* f"{prefix}{value}"
format_prefixed(p, value) == p \o value

\* a membership test that every key passes
EligibleAlways(key, keys) == TRUE

\* key in keys_to_prefix
IsEligible(key, keys) == key \in keys

\* an assignment that is lost
DictSetLost(lookup, k, v) == lookup

\* lookup[k] = v on a dict kept as its items in insertion order
dict_setitem(lookup, k, v) ==
    IF \E i \in 1..Len(lookup) : lookup[i][1] = k
    THEN [i \in 1..Len(lookup) |->
             IF lookup[i][1] = k THEN <<k, v>> ELSE lookup[i]]
    ELSE Append(lookup, <<k, v>>)

RECURSIVE recursive_prefix_lookup(_, _, _, _)
RECURSIVE RewriteItems(_, _, _, _, _, _)
RECURSIVE RewriteList(_, _, _, _, _, _)

\* the loop "for key, value in data.items()" from item i on; new_data holds
\* the values built so far
RewriteItems(data, p, keys, lookup, i, new_data) ==
    IF i > Len(data.keys)
    THEN [new_data |-> Dict(data.keys, new_data), lookup |-> lookup]
    ELSE LET key == data.keys[i]
             value == data.kids[i]
         IN  IF IsEligible(key, keys) /\ IsStr(value)
             THEN IF ~startswith(value.s, p)
                  THEN LET new_value == format_prefixed(p, value.s)
                       IN  RewriteItems(data, p, keys,
                                        dict_setitem(lookup, value.s, new_value),
                                        i + 1, Append(new_data, Str(new_value)))
                  ELSE RewriteItems(data, p, keys, lookup, i + 1,
                                    Append(new_data, value))
             ELSE LET r == recursive_prefix_lookup(value, p, keys, lookup)
                  IN  RewriteItems(data, p, keys, r.lookup, i + 1,
                                   Append(new_data, r.new_data))

\* the list comprehension from item i on
RewriteList(data, p, keys, lookup, i, out) ==
    IF i > Len(data.kids)
    THEN [new_data |-> List(out), lookup |-> lookup]
    ELSE LET r == recursive_prefix_lookup(data.kids[i], p, keys, lookup)
         IN  RewriteList(data, p, keys, r.lookup, i + 1, Append(out, r.new_data))

\* returns the new tree and the lookup dict as the call leaves it
recursive_prefix_lookup(data, p, keys, lookup) ==
    IF IsDict(data) THEN RewriteItems(data, p, keys, lookup, 1, <<>>)
    ELSE IF IsList(data) THEN RewriteList(data, p, keys, lookup, 1, <<>>)
    ELSE [new_data |-> data, lookup |-> lookup]

---------------------------------------------------------------------------
(* diff_dict *)

\* the elements of seq that are in S, in seq's order
Restrict(seq, S) == SelectSeq(seq, LAMBDA k : k \in S)

\* the set of a sequence's elements
Range(seq) == {seq[i] : i \in 1..Len(seq)}

\* iteration order of the set d1.keys() | d2.keys(): a set of str iterates
\* in the order of the hashes, which the interpreter's hash seed decides
KeyUnion(d1, d2, seed) == Restrict(seed, Range(d1.keys) \cup Range(d2.keys))

\* d1 != d2 in the scalar / mismatched-types branch: a NaN differs from
\* everything, itself included; values of different types differ
PyNe(d1, d2) == d1 = NaN \/ d2 = NaN \/ d1 # d2

\* f"{path}.{k}" if path else k
KeyPath(path, k) == IF path # <<>> THEN path \o <<".", k>> ELSE <<k>>

\* f"{path}[{i}]", i a 0-based index
IndexPath(path, i) == path \o <<"[", ToString(i), "]">>

\* a change record (path, old, new)
Change(path, old, new) == [path |-> path, old |-> old, new |-> new]

RECURSIVE diff_dict(_, _, _, _)
RECURSIVE DiffKeys(_, _, _, _, _, _)
RECURSIVE DiffZip(_, _, _, _, _)

\* the loop over the key union from its j-th key on
DiffKeys(d1, d2, path, seed, ks, j) ==
    IF j > Len(ks) THEN <<>>
    ELSE LET k == ks[j]
             p == KeyPath(path, k)
             here == IF HasKey(d1, k) /\ HasKey(d2, k)
                     THEN diff_dict(DictGet(d1, k), DictGet(d2, k), p, seed)
                     ELSE IF HasKey(d1, k)
                     THEN <<Change(p, DictGet(d1, k), PyNone)>>
                     ELSE <<Change(p, PyNone, DictGet(d2, k))>>
         IN  here \o DiffKeys(d1, d2, path, seed, ks, j + 1)

\* the loop over zip(d1, d2) from pair i (1-based) on
DiffZip(d1, d2, path, seed, i) ==
    IF i > Len(d1.kids) \/ i > Len(d2.kids) THEN <<>>
    ELSE diff_dict(d1.kids[i], d2.kids[i], IndexPath(path, i - 1), seed)
         \o DiffZip(d1, d2, path, seed, i + 1)

diff_dict(d1, d2, path, seed) ==
    IF IsDict(d1) /\ IsDict(d2)
    THEN DiffKeys(d1, d2, path, seed, KeyUnion(d1, d2, seed), 1)
    ELSE IF IsList(d1) /\ IsList(d2)
    THEN DiffZip(d1, d2, path, seed, 1)
         \o [i \in 1..(IF Len(d2.kids) > Len(d1.kids)
                       THEN Len(d2.kids) - Len(d1.kids) ELSE 0) |->
                Change(IndexPath(path, Len(d1.kids) + i - 1), PyNone,
                       d2.kids[Len(d1.kids) + i])]
         \o [i \in 1..(IF Len(d1.kids) > Len(d2.kids)
                       THEN Len(d1.kids) - Len(d2.kids) ELSE 0) |->
                Change(IndexPath(path, Len(d2.kids) + i - 1),
                       d1.kids[Len(d2.kids) + i], PyNone)]
    ELSE IF PyNe(d1, d2) THEN <<Change(path, d1, d2)>> ELSE <<>>

---------------------------------------------------------------------------
(* The inputs of the pure functions *)

\* the characters of scalar strings
Alphabet == {"d", "w"}

\* the mapping keys
Keys == {"name", "x"}

\* every sequence over A of length at most n
RECURSIVE SeqsUpTo(_, _)
SeqsUpTo(A, n) ==
    IF n = 0 THEN {<<>>}
    ELSE LET r == SeqsUpTo(A, n - 1)
         IN  r \cup {Append(q, a) : q \in {x \in r : Len(x) = n - 1}, a \in A}

\* every ordering of the set S
Orderings(S) ==
    {f \in [1..Cardinality(S) -> S] : \A i, j \in 1..Cardinality(S) : f[i] = f[j] => i = j}

\* the scalars: strings, None and NaN
Leaves == {Str(q) : q \in SeqsUpTo(Alphabet, MaxStrLen)} \cup {PyNone, NaN}

\* key sequences without duplicates, of length n
KeySeqs(n) == {ks \in [1..n -> Keys] : \A i, j \in 1..n : ks[i] = ks[j] => i = j}

RECURSIVE TreesOfSize(_)
RECURSIVE Forests(_)

\* the sequences of trees with n nodes in all
Forests(n) ==
    IF n = 0 THEN {<<>>}
    ELSE UNION {{<<t>> \o f : t \in TreesOfSize(k), f \in Forests(n - k)} : k \in 1..n}

\* the trees with n nodes
TreesOfSize(n) ==
    IF n = 1 THEN Leaves \cup {Dict(<<>>, <<>>), List(<<>>)}
    ELSE {List(f) : f \in Forests(n - 1)}
         \cup UNION {{Dict(ks, f) : ks \in KeySeqs(Len(f))} : f \in Forests(n - 1)}

\* the trees with at most MaxNodes nodes
Trees == UNION {TreesOfSize(n) : n \in 1..MaxNodes}

\* the prefixes a user may type: none, one character, two characters
Prefixes == {<<>>, <<"d">>, <<"d", "w">>}

\* the hash orders of the keys
HashOrders == Orderings(Keys)

---------------------------------------------------------------------------
(* PureSpec: the two pure functions applied to one tree *)

InitPure ==
    /\ variant = "aap_prefix4"
    /\ prefix \in Prefixes
    /\ hashseed \in HashOrders
    /\ keys_to_prefix \in (SUBSET Keys) \ {{}}
    /\ original_data \in Trees
    /\ lookup_table = <<>>
    /\ fs = <<>>
    /\ fs0 = <<>>
    /\ idx = 1
    /\ pc = "call"
    /\ stdout = <<>>
    /\ dumper_str = "represent_str"
    /\ safe_dumper_str = "represent_str"
    /\ updated_data = PyNone
    /\ diffs = <<>>
    /\ twice = PyNone

\* updated_data = recursive_prefix_lookup(original_data, ...); diffs = diff_dict(...)
ApplyRewriteAndDiff ==
    /\ pc = "call"
    /\ LET r == recursive_prefix_lookup(original_data, prefix, keys_to_prefix, lookup_table)
       IN  /\ updated_data' = r.new_data
           /\ lookup_table' = r.lookup
           /\ diffs' = diff_dict(original_data, r.new_data, <<>>, hashseed)
    /\ pc' = "diffed"
    /\ UNCHANGED <<variant, prefix, hashseed, fs, fs0, idx, stdout, dumper_str,
                   safe_dumper_str, keys_to_prefix, original_data, twice>>

\* the rewriter applied again, to its own output, with the same arguments
ApplyRewriteAgain ==
    /\ pc = "diffed"
    /\ LET r == recursive_prefix_lookup(updated_data, prefix, keys_to_prefix, lookup_table)
       IN  /\ twice' = r.new_data
           /\ lookup_table' = r.lookup
    /\ pc' = "twice"
    /\ UNCHANGED <<variant, prefix, hashseed, fs, fs0, idx, stdout, dumper_str,
                   safe_dumper_str, keys_to_prefix, original_data, updated_data, diffs>>

NextPure == ApplyRewriteAndDiff \/ ApplyRewriteAgain

PureSpec == InitPure /\ [][NextPure]_vars

---------------------------------------------------------------------------
(* YAML documents: what the dumper writes and the loader reads.  A document *)
(* node carries the style its scalar is written in: "|" is the literal      *)
(* block style, "" the style the emitter picks when none is requested.      *)

YamlNode(tag, s, keys, kids, style) ==
    [tag |-> tag, s |-> s, keys |-> keys, kids |-> kids, style |-> style]

\* "\n" in data or any(c in data for c in ['"', "'", "\\", "<", ">"])
NeedsBlock(data) ==
    \E i \in 1..Len(data) : data[i] \in {"\n", "\"", "'", "\\", "<", ">"}

\* represent_multiline_str: the style it asks represent_scalar for
represent_multiline_str(data) == IF NeedsBlock(data) THEN "|" ELSE ""

(* The yaml module keeps one table of representers per dumper class.       *)
(* yaml.add_representer(str, f) has the default Dumper=yaml.Dumper, so it  *)
(* sets dumper_str; yaml.safe_dump dumps with yaml.SafeDumper, whose table *)
(* is safe_dumper_str.                                                     *)

\* the style asked for by the str representer registered under that name
StrStyle(representer, data) ==
    IF representer = "represent_multiline_str"
    THEN represent_multiline_str(data)
    ELSE ""

\* the representation graph the dumper builds for data, with the str
\* representer of the dumper class in use
RECURSIVE Represent(_, _)
Represent(data, representer) ==
    IF IsDict(data)
    THEN YamlNode("!!map", <<>>, data.keys,
                  [i \in 1..Len(data.kids) |-> Represent(data.kids[i], representer)], "")
    ELSE IF IsList(data)
    THEN YamlNode("!!seq", <<>>, <<>>,
                  [i \in 1..Len(data.kids) |-> Represent(data.kids[i], representer)], "")
    ELSE IF IsStr(data)
    THEN YamlNode("!!str", data.s, <<>>, <<>>, StrStyle(representer, data.s))
    ELSE IF data = PyNone
    THEN YamlNode("!!null", <<>>, <<>>, <<>>, "")
    ELSE YamlNode("!!float", data.s, <<>>, <<>>, "")

\* the tree yaml.safe_load constructs from a document
RECURSIVE Construct(_)
Construct(doc) ==
    IF doc.tag = "!!map"
    THEN Dict(doc.keys, [i \in 1..Len(doc.kids) |-> Construct(doc.kids[i])])
    ELSE IF doc.tag = "!!seq"
    THEN List([i \in 1..Len(doc.kids) |-> Construct(doc.kids[i])])
    ELSE IF doc.tag = "!!str" THEN Str(doc.s)
    ELSE IF doc.tag = "!!null" THEN PyNone
    ELSE NaN

\* the number of nodes of a document
RECURSIVE DocSize(_)
RECURSIVE DocSizeFrom(_, _)
DocSizeFrom(doc, i) ==
    IF i > Len(doc.kids) THEN 0
    ELSE DocSize(doc.kids[i]) + DocSizeFrom(doc, i + 1)
DocSize(doc) == 1 + DocSizeFrom(doc, 1)

(* File contents.  kind "yaml": a complete document; "malformed": text the  *)
(* loader rejects; "partial": the file was opened for writing (truncated)   *)
(* and the first `written` nodes of doc reached it; "absent": no file.      *)
Content(kind, doc, written) == [kind |-> kind, doc |-> doc, written |-> written]
NoDoc == YamlNode("!!null", <<>>, <<>>, <<>>, "")
Absent == Content("absent", NoDoc, 0)
Malformed == Content("malformed", NoDoc, 0)
YamlFile(doc) == Content("yaml", doc, DocSize(doc))

---------------------------------------------------------------------------
(* The run *)

\* file_key_map, in insertion order
file_key_map == <<
    [filename |-> "orgs.yaml", keys |-> {"name"}],
    [filename |-> "projects.yaml", keys |-> {"name", "organization"}],
    [filename |-> "teams.yaml", keys |-> {"name", "organization"}],
    [filename |-> "schedules.yaml", keys |-> {"name", "unified_job_template"}],
    [filename |-> "inventories.yaml", keys |-> {"name", "organization"}],
    [filename |-> "job_templates.yaml",
     keys |-> {"name", "organization", "project", "inventory", "credentials"}],
    [filename |-> "notification_templates.yaml", keys |-> {"name", "organization"}],
    [filename |-> "workflow_job_templates.yaml",
     keys |-> {"name", "organization", "workflow_job_template", "unified_job_template"}] >>

\* the entries a run of the model iterates over
NumFiles == IF MaxFiles < Len(file_key_map) THEN MaxFiles ELSE Len(file_key_map)

\* the trees the files of a run may hold
FileTrees == {
    Dict(<<"name", "organization">>, <<Str(<<"w">>), Str(<<"i">>)>>),
    Dict(<<"name">>, <<Str(<<"d", "w">>)>>),
    List(<<Dict(<<"name">>, <<Str(<<"w">>)>>)>>),
    Dict(<<"name">>, <<Str(<<"w", "\n">>)>>),
    Dict(<<"organization">>, <<List(<<Str(<<"w">>)>>)>>),
    PyNone }

\* what a file of the working directory may be when the run starts
FileContents ==
    {Absent, Malformed} \cup {YamlFile(Represent(t, "represent_str")) : t \in FileTrees}

\* the hash orders of the keys the files use
FileHashOrders == Orderings({"name", "organization"})

Init ==
    /\ variant \in {"aap_prefix3", "aap_prefix4"}
    /\ prefix \in Prefixes
    /\ hashseed \in FileHashOrders
    /\ lookup_table = <<>>
    /\ fs \in [1..NumFiles -> FileContents]
    /\ fs0 = fs
    /\ idx = 1
    /\ pc = "loop"
    /\ stdout = <<>>
    /\ dumper_str = "represent_str"
    /\ safe_dumper_str = "represent_str"
    /\ keys_to_prefix = {}
    /\ original_data = PyNone
    /\ updated_data = PyNone
    /\ diffs = <<>>
    /\ twice = PyNone

\* a printed line; rec is the change record or lookup entry it shows
NoRec == Change(<<>>, PyNone, PyNone)
Line(kind, filename, rec) == [kind |-> kind, filename |-> filename, rec |-> rec]

\* the report process_yaml_file prints after the write
Report(filename, changes) ==
    <<Line("Processed", filename, NoRec)>>
    \o (IF changes # <<>>
        THEN <<Line("Changes made:", filename, NoRec)>>
             \o [i \in 1..Len(changes) |-> Line("change", filename, changes[i])]
        ELSE <<Line("No changes detected.", filename, NoRec)>>)

\* an except clause that catches nothing
CatchesNothing(v) == FALSE

\* whether the main loop wraps process_yaml_file in try / except Exception
CatchesException(v) == v = "aap_prefix4"

\* os.path.exists(filename)
Exists(i) == fs[i].kind # "absent"

\* the loop is at entry i of file_key_map
AtFile(i) == pc = "loop" /\ idx = i /\ i <= NumFiles

\* print(f"Skipping {filename} (not found)")
SkipMissing ==
    /\ AtFile(idx)
    /\ ~Exists(idx)
    /\ stdout' = Append(stdout, Line("Skipping", file_key_map[idx].filename, NoRec))
    /\ idx' = idx + 1
    /\ UNCHANGED <<variant, prefix, hashseed, lookup_table, fs, fs0, pc, dumper_str,
                   safe_dumper_str, keys_to_prefix, original_data, updated_data,
                   diffs, twice>>

\* the main loop after process_yaml_file raised: the except clause prints
\* and the loop goes on, or the exception ends the script
Raised ==
    IF CatchesException(variant)
    THEN /\ stdout' = Append(stdout, Line("Failed", file_key_map[idx].filename, NoRec))
         /\ idx' = idx + 1
         /\ pc' = pc
    ELSE /\ stdout' = stdout
         /\ idx' = idx
         /\ pc' = "aborted"

\* process_yaml_file raises in open(filepath, "r"), f.read() or
\* yaml.safe_load: nothing has been changed yet.  Reading may fail for any
\* file that exists (the environment decides); a file that is no complete
\* document can only end here, ProcessOk and ProcessRaisesInWrite need one.
ProcessRaisesBeforeRewrite ==
    /\ AtFile(idx)
    /\ Exists(idx)
    /\ Raised
    /\ UNCHANGED <<variant, prefix, hashseed, lookup_table, fs, fs0, dumper_str,
                   safe_dumper_str, keys_to_prefix, original_data, updated_data,
                   diffs, twice>>

\* process_yaml_file up to yaml.add_representer, on a file that parses.
\* The text itself is not modelled: doc is the document the loader sees,
\* in aap_prefix4 after fix_block_scalars and with unknown "!" tags dropped.
Rewritten(r) ==
    /\ keys_to_prefix' = file_key_map[idx].keys
    /\ original_data' = Construct(fs[idx].doc)
    /\ updated_data' = r.new_data
    /\ lookup_table' = r.lookup
    /\ diffs' = diff_dict(Construct(fs[idx].doc), r.new_data, <<>>, hashseed)
    /\ dumper_str' = "represent_multiline_str"

\* process_yaml_file raises in open(filepath, "w") (the file is as it was)
\* or in yaml.safe_dump (the file was truncated by open and holds what the
\* emitter wrote before the error)
ProcessRaisesInWrite ==
    /\ AtFile(idx)
    /\ fs[idx].kind = "yaml"
    /\ LET r == recursive_prefix_lookup(Construct(fs[idx].doc), prefix,
                                        file_key_map[idx].keys, lookup_table)
           doc == Represent(r.new_data, safe_dumper_str)
       IN  /\ Rewritten(r)
           /\ \/ fs' = fs
              \/ \E n \in 0..(DocSize(doc) - 1) :
                    fs' = [fs EXCEPT ![idx] = Content("partial", doc, n)]
    /\ Raised
    /\ UNCHANGED <<variant, prefix, hashseed, fs0, safe_dumper_str, twice>>

\* process_yaml_file returns: the file holds the dump of the updated tree
\* and the report is printed
ProcessOk ==
    /\ AtFile(idx)
    /\ fs[idx].kind = "yaml"
    /\ LET r == recursive_prefix_lookup(Construct(fs[idx].doc), prefix,
                                        file_key_map[idx].keys, lookup_table)
       IN  /\ Rewritten(r)
           /\ fs' = [fs EXCEPT ![idx] = YamlFile(Represent(r.new_data, safe_dumper_str))]
           /\ stdout' = stdout \o Report(file_key_map[idx].filename, diffs')
    /\ idx' = idx + 1
    /\ UNCHANGED <<variant, prefix, hashseed, fs0, pc, safe_dumper_str, twice>>

\* the final report of the lookup table
PrintLookup ==
    /\ pc = "loop"
    /\ idx > NumFiles
    /\ stdout' = stdout
                 \o <<Line("Lookup table (old -> new values):", "", NoRec)>>
                 \o [i \in 1..Len(lookup_table) |->
                        Line("entry", "",
                             Change(<<>>, Str(lookup_table[i][1]), Str(lookup_table[i][2])))]
    /\ pc' = "done"
    /\ UNCHANGED <<variant, prefix, hashseed, lookup_table, fs, fs0, idx, dumper_str,
                   safe_dumper_str, keys_to_prefix, original_data, updated_data,
                   diffs, twice>>

Next ==
    \/ SkipMissing
    \/ ProcessRaisesBeforeRewrite
    \/ ProcessRaisesInWrite
    \/ ProcessOk
    \/ PrintLookup

Spec == Init /\ [][Next]_vars

\* a script that has not ended takes its next step
FairSpec == Init /\ [][Next]_vars /\ WF_vars(Next)

---------------------------------------------------------------------------
(* What the claims speak of, stated without the model's own operators *)

\* p is an initial segment of q
IsPrefixOf(p, q) == \E n \in 0..Len(q) : SubSeq(q, 1, n) = p

\* the bag of a sequence's elements
BagOf(seq) == [x \in Range(seq) |-> Cardinality({i \in 1..Len(seq) : seq[i] = x})]

\* a string leaf the rewriter has to transform: directly under an eligible
\* key and not starting with the prefix
Transforms(t, eligible) == t.tag = "str" /\ eligible /\ ~IsPrefixOf(prefix, t.s)

\* u is t with exactly the leaves to transform replaced by prefix + leaf
RECURSIVE Preserved(_, _, _)
Preserved(t, u, eligible) ==
    IF t.tag = "dict"
    THEN /\ u.tag = "dict"
         /\ u.keys = t.keys
         /\ Len(u.kids) = Len(t.kids)
         /\ \A i \in 1..Len(t.kids) :
               Preserved(t.kids[i], u.kids[i], t.keys[i] \in keys_to_prefix)
    ELSE IF t.tag = "list"
    THEN /\ u.tag = "list"
         /\ Len(u.kids) = Len(t.kids)
         /\ \A i \in 1..Len(t.kids) : Preserved(t.kids[i], u.kids[i], FALSE)
    ELSE IF Transforms(t, eligible)
    THEN u = Str(prefix \o t.s)
    ELSE u = t

\* one change record per leaf to transform, in document order
RECURSIVE ExpectedChanges(_, _, _)
RECURSIVE ExpectedFrom(_, _, _)
ExpectedFrom(t, path, i) ==
    IF i > Len(t.kids) THEN <<>>
    ELSE (IF t.tag = "dict"
          THEN ExpectedChanges(t.kids[i],
                               IF path = <<>> THEN <<t.keys[i]>>
                               ELSE path \o <<".", t.keys[i]>>,
                               t.keys[i] \in keys_to_prefix)
          ELSE ExpectedChanges(t.kids[i], path \o <<"[", ToString(i - 1), "]">>, FALSE))
         \o ExpectedFrom(t, path, i + 1)
ExpectedChanges(t, path, eligible) ==
    IF t.tag \in {"dict", "list"} THEN ExpectedFrom(t, path, 1)
    ELSE IF Transforms(t, eligible)
    THEN <<[path |-> path, old |-> t, new |-> Str(prefix \o t.s)]>>
    ELSE <<>>

\* the tree holds a NaN
RECURSIVE HasNaN(_)
HasNaN(t) == t = NaN \/ \E i \in 1..Len(t.kids) : HasNaN(t.kids[i])

\* the functions have been applied
Applied == pc \in {"diffed", "twice"}

\* the status lines printed so far, one per visited file
StatusLines == SelectSeq(stdout, LAMBDA l : l.kind \in {"Processed", "Failed", "Skipping"})

\* the change lines printed so far
ChangeLines == SelectSeq(stdout, LAMBDA l : l.kind = "change")

\* process_yaml_file returned for entry i of file_key_map
Succeeded(i) ==
    \E j \in 1..Len(stdout) :
        stdout[j].kind = "Processed" /\ stdout[j].filename = file_key_map[i].filename

\* process_yaml_file raised for entry i of file_key_map
Failed(i) ==
    \/ \E j \in 1..Len(stdout) :
          stdout[j].kind = "Failed" /\ stdout[j].filename = file_key_map[i].filename
    \/ pc = "aborted" /\ idx = i

\* the old values the rewrite of entry i's file writes into the lookup table
InsertedBy(i) ==
    IF fs0[i].kind # "yaml" THEN {}
    ELSE {e[1] : e \in Range(recursive_prefix_lookup(Construct(fs0[i].doc), prefix,
                                                     file_key_map[i].keys, <<>>).lookup)}

\* every string of the document has the style the policy asks for
RECURSIVE StyledByPolicy(_)
StyledByPolicy(doc) ==
    /\ doc.tag = "!!str" => (doc.style = "|" <=> NeedsBlock(doc.s))
    /\ \A i \in 1..Len(doc.kids) : StyledByPolicy(doc.kids[i])

\* the document has a string the policy wants in block style
RECURSIVE HasBlockString(_)
HasBlockString(doc) ==
    \/ doc.tag = "!!str" /\ NeedsBlock(doc.s)
    \/ \E i \in 1..Len(doc.kids) : HasBlockString(doc.kids[i])

---------------------------------------------------------------------------
(* The claims *)

\* C1 (PureSpec): the rewriter is idempotent: applied to its own output
\* with the same prefix and keys it returns that output unchanged.
C1_Idempotent == pc = "twice" => twice = updated_data

\* C1's case: the first pass transformed a value and the second pass ran
C1_Witness == pc = "twice" /\ updated_data # original_data /\ prefix # <<>>

\* C2 (PureSpec): the rewritten tree has the shape of the input; the only
\* positions that differ are strings directly under a key to prefix that
\* did not start with the prefix, and they hold prefix + original.
C2_StructurePreserved == Applied => Preserved(original_data, updated_data, FALSE)

\* C2's case: a mapping of two entries, one value transformed, one kept
C2_Witness ==
    /\ pc = "diffed"
    /\ original_data.tag = "dict"
    /\ Len(original_data.kids) = 2
    /\ updated_data.kids[1] # original_data.kids[1]
    /\ updated_data.kids[2] = original_data.kids[2]
    /\ original_data.kids[2].tag = "str"

\* C3 (PureSpec): diff_dict(t, rewrite(t)) holds exactly one change record
\* (path, original, prefix + original) per transformed string leaf and
\* no record for any other position.
C3_DiffComplete ==
    Applied => BagOf(diffs) = BagOf(ExpectedChanges(original_data, <<>>, FALSE))

\* C3 on the trees without a NaN
C3_DiffCompleteWithoutNaN ==
    (Applied /\ ~HasNaN(original_data))
        => BagOf(diffs) = BagOf(ExpectedChanges(original_data, <<>>, FALSE))

\* C9 (PureSpec): every evaluation of diff_dict on the same two trees
\* returns the same ordered list: the order does not depend on the
\* interpreter's hash order.
C9_DeterministicOrder ==
    Applied => \A seed \in HashOrders :
                   diff_dict(original_data, updated_data, <<>>, seed) = diffs

\* C4 (Spec): every change record printed for a file whose old and new are
\* strings and whose new starts with the prefix is in the lookup table,
\* lookup[old] = new, from the file's report to the end of the run.
C4_LookupFidelity ==
    \A j \in 1..Len(ChangeLines) :
        LET rec == ChangeLines[j].rec
        IN  (rec.old.tag = "str" /\ rec.new.tag = "str" /\ IsPrefixOf(prefix, rec.new.s))
            => \E e \in Range(lookup_table) : e[1] = rec.old.s /\ e[2] = rec.new.s

\* C4's case: the run is over and two files reported changes
C4_Witness ==
    /\ pc = "done"
    /\ \E j, k \in 1..Len(ChangeLines) :
          /\ ChangeLines[j].filename # ChangeLines[k].filename
          /\ ChangeLines[j].rec.old # ChangeLines[k].rec.old

\* C5 (Spec): at the end of a run every entry of the lookup table was
\* inserted by a file whose processing succeeded; a file whose processing
\* raised contributes nothing.
C5_OnlySuccessfulFiles ==
    (variant = "aap_prefix4" /\ pc = "done")
        => \A e \in Range(lookup_table) :
               \E i \in 1..NumFiles : Succeeded(i) /\ e[1] \in InsertedBy(i)

\* C6 (Spec): a file whose processing succeeded holds the complete dump of
\* the updated tree; a file whose processing raised holds what it held
\* before the call.
C6_AllOrNothing ==
    \A i \in 1..NumFiles :
        /\ Succeeded(i) => fs[i].kind = "yaml" /\ fs[i].written = DocSize(fs[i].doc)
        /\ Failed(i) => fs[i] = fs0[i]

\* the run of aap_prefix4 is over: one status line per entry of
\* file_key_map, in its order, "Skipping" exactly for the missing files,
\* and the lookup report printed
RunComplete ==
    /\ pc = "done"
    /\ Len(StatusLines) = NumFiles
    /\ \A i \in 1..NumFiles :
          /\ StatusLines[i].filename = file_key_map[i].filename
          /\ StatusLines[i].kind = "Skipping" <=> fs0[i].kind = "absent"
    /\ \E j \in 1..Len(stdout) : stdout[j].kind = "Lookup table (old -> new values):"

\* C7 (FairSpec): the main loop of aap_prefix4 visits every file once, in
\* order, whether a file is missing or its processing raises, and the
\* lookup report is eventually printed.
C7_ResilientRun == (variant = "aap_prefix4") => <>RunComplete

\* C7's case: a file failed, a later file was processed, the report is out
C7_Witness ==
    /\ variant = "aap_prefix4"
    /\ pc = "done"
    /\ \E i, j \in 1..Len(StatusLines) :
          i < j /\ StatusLines[i].kind = "Failed" /\ StatusLines[j].kind = "Processed"

\* C8 (Spec): in a file process_yaml_file wrote, every string with a
\* newline, quote, backslash, '<' or '>' is in literal block style and
\* every other string in the default style.
C8_BlockStylePolicy ==
    \A i \in 1..NumFiles : (Succeeded(i) /\ fs[i].kind = "yaml") => StyledByPolicy(fs[i].doc)

\* every entry of the lookup table is k -> prefix + k, k not starting with
\* the prefix
LookupEntriesPrefixed ==
    \A e \in Range(lookup_table) : e[2] = prefix \o e[1] /\ ~IsPrefixOf(prefix, e[1])

\* a step keeps every entry of the lookup table, at its place
LookupEntriesKept ==
    /\ Len(lookup_table') >= Len(lookup_table)
    /\ \A i \in 1..Len(lookup_table) : lookup_table'[i] = lookup_table[i]

\* C10 (Spec): the lookup table starts empty, every entry is
\* k -> prefix + k with k not starting with the prefix, and no step
\* removes or changes an entry.
C10_AppendOnly ==
    /\ lookup_table = <<>>
    /\ []LookupEntriesPrefixed
    /\ [][LookupEntriesKept]_vars

\* C10's case: the second file wrote an old value the first had written
C10_Witness ==
    /\ idx >= 3
    /\ Len(lookup_table) = 1
    /\ \E j, k \in 1..Len(ChangeLines) :
          /\ ChangeLines[j].filename # ChangeLines[k].filename
          /\ ChangeLines[j].rec.old = ChangeLines[k].rec.old

====
